---------------------------- MODULE Spec2Model ----------------------------
(***************************************************************************)
(* env-core: schema-driven loading and validation of environment          *)
(* variables (validateEnv, validateEnvVariable, loadEnvFile).              *)
(*                                                                         *)
(* JavaScript values are tagged records ([t |-> "string", s |-> ...]).     *)
(* Raw environment strings are sequences of one-character strings, so      *)
(* that Number(...) and the 'true'/'false' comparisons are computed from   *)
(* the characters.  Keys and messages are TLA+ strings.  A multi-line      *)
(* string (lines joined by '\n') is the sequence of its lines.             *)
(***************************************************************************)
EXTENDS Integers, Sequences, FiniteSets, TLC

(***************************************************************************)
(* Bounds of the model.                                                    *)
(***************************************************************************)
\* largest number of keys of a schema
MaxKeys == 2
\* longest raw string enumerated character by character for a Number key
MaxLen == 4

(***************************************************************************)
(* JavaScript values.                                                      *)
(***************************************************************************)
Undefined == [t |-> "undefined"]
Str(chars) == [t |-> "string", s |-> chars]
Bool(b) == [t |-> "boolean", b |-> b]
NaN == [t |-> "number", cls |-> "NaN"]
Infinity(neg) == [t |-> "number", cls |-> "Infinity", neg |-> neg]

\* A finite number is neg * m * 10^e, with m not a multiple of 10 (or m = 0
\* and e = 0): one record per numeric value, -0 and +0 kept apart as in IEEE.
RECURSIVE Normalize(_, _)
Normalize(m, e) ==
    IF m = 0 THEN [m |-> 0, e |-> 0]
    ELSE IF m % 10 = 0 THEN Normalize(m \div 10, e + 1)
    ELSE [m |-> m, e |-> e]

RECURSIVE NumDigits(_)
NumDigits(m) == IF m < 10 THEN 1 ELSE 1 + NumDigits(m \div 10)

\* largest decimal exponent of a finite IEEE double (1.79e308)
MaxDecimalExponent == 308
\* below 10^-324 a decimal literal rounds to zero
MinDecimalExponent == -324

RECURSIVE Pow10(_)
Pow10(k) == IF k = 0 THEN 1 ELSE 10 * Pow10(k - 1)

\* the first five significant digits of the largest finite double,
\* 1.7976931348623157e308, rounded up
MaxDoubleLeading == 17977

\* m (normalized, non-zero) scaled to five significant digits
Leading5(m) ==
    IF NumDigits(m) <= 5 THEN m * Pow10(5 - NumDigits(m))
    ELSE m \div Pow10(NumDigits(m) - 5)

\* Exact for the literals of up to 8 significant digits that the model draws.
Finite(neg, m, e) ==
    LET n == Normalize(m, e)
        lead == n.e + NumDigits(n.m) - 1
    IN  IF n.m # 0 /\ (lead > MaxDecimalExponent
                       \/ (lead = MaxDecimalExponent /\ Leading5(n.m) >= MaxDoubleLeading))
            THEN Infinity(neg)
        ELSE IF n.m # 0 /\ lead < MinDecimalExponent
             THEN [t |-> "number", cls |-> "finite", neg |-> neg, m |-> 0, e |-> 0]
        ELSE [t |-> "number", cls |-> "finite", neg |-> neg, m |-> n.m, e |-> n.e]

isNaN(v) == v = NaN

(***************************************************************************)
(* Number(string): the StringToNumber grammar of the language.             *)
(***************************************************************************)
WhiteSpace == {" ", "\t", "\n"}
DecimalDigits == {"0", "1", "2", "3", "4", "5", "6", "7", "8", "9"}
HexLetters == {"a", "b", "c", "d", "e", "f", "A", "B", "C", "D", "E", "F"}

DigitValue(c) ==
    CASE c = "0" -> 0 [] c = "1" -> 1 [] c = "2" -> 2 [] c = "3" -> 3
      [] c = "4" -> 4 [] c = "5" -> 5 [] c = "6" -> 6 [] c = "7" -> 7
      [] c = "8" -> 8 [] c = "9" -> 9
      [] c \in {"a", "A"} -> 10 [] c \in {"b", "B"} -> 11
      [] c \in {"c", "C"} -> 12 [] c \in {"d", "D"} -> 13
      [] c \in {"e", "E"} -> 14 [] c \in {"f", "F"} -> 15

\* s without its leading and trailing white space
Trim(s) ==
    LET keep == {i \in 1..Len(s) : s[i] \notin WhiteSpace}
    IN  IF keep = {} THEN <<>>
        ELSE SubSeq(s, CHOOSE i \in keep : \A j \in keep : i <= j,
                       CHOOSE i \in keep : \A j \in keep : j <= i)

AllIn(s, chars) == \A i \in 1..Len(s) : s[i] \in chars

\* the value of a digit string in the given radix
RECURSIVE RadixValue(_, _)
RadixValue(s, radix) ==
    IF s = <<>> THEN 0
    ELSE RadixValue(SubSeq(s, 1, Len(s) - 1), radix) * radix + DigitValue(s[Len(s)])

\* position of the first character of s that is in chars, 0 if none
FirstIn(s, chars) ==
    LET hits == {i \in 1..Len(s) : s[i] \in chars}
    IN  IF hits = {} THEN 0 ELSE CHOOSE i \in hits : \A j \in hits : i <= j

\* 0x / 0o / 0b literals: no sign, at least one digit
NonDecimalLiteral(s) ==
    IF Len(s) < 3 \/ s[1] # "0" THEN NaN
    ELSE LET digits == SubSeq(s, 3, Len(s))
         IN  IF s[2] \in {"x", "X"} /\ AllIn(digits, DecimalDigits \cup HexLetters)
                 THEN Finite(FALSE, RadixValue(digits, 16), 0)
             ELSE IF s[2] \in {"o", "O"} /\ AllIn(digits, {"0", "1", "2", "3", "4", "5", "6", "7"})
                 THEN Finite(FALSE, RadixValue(digits, 8), 0)
             ELSE IF s[2] \in {"b", "B"} /\ AllIn(digits, {"0", "1"})
                 THEN Finite(FALSE, RadixValue(digits, 2), 0)
             ELSE NaN

\* the signed exponent of an ExponentPart (the text after e/E); ok is FALSE
\* when the text is not [+-] digits
ExponentOf(s) ==
    LET signed == s # <<>> /\ s[1] \in {"+", "-"}
        digits == IF signed THEN SubSeq(s, 2, Len(s)) ELSE s
    IN  IF digits = <<>> \/ ~AllIn(digits, DecimalDigits) THEN [ok |-> FALSE, v |-> 0]
        ELSE IF signed /\ s[1] = "-" THEN [ok |-> TRUE, v |-> 0 - RadixValue(digits, 10)]
        ELSE [ok |-> TRUE, v |-> RadixValue(digits, 10)]

\* a digit string without its trailing zeros (each is a factor of ten)
RECURSIVE StripTrailingZeros(_)
StripTrailingZeros(digits) ==
    IF digits # <<>> /\ digits[Len(digits)] = "0"
    THEN StripTrailingZeros(SubSeq(digits, 1, Len(digits) - 1))
    ELSE digits

\* digits [. digits] [e exponent], . digits [e exponent], or Infinity
UnsignedDecimalLiteral(s, neg) ==
    IF s = <<"I", "n", "f", "i", "n", "i", "t", "y">> THEN Infinity(neg)
    ELSE
    LET ePos == FirstIn(s, {"e", "E"})
        mant == IF ePos = 0 THEN s ELSE SubSeq(s, 1, ePos - 1)
        exp == IF ePos = 0 THEN [ok |-> TRUE, v |-> 0]
               ELSE ExponentOf(SubSeq(s, ePos + 1, Len(s)))
        dot == FirstIn(mant, {"."})
        int == IF dot = 0 THEN mant ELSE SubSeq(mant, 1, dot - 1)
        frac == IF dot = 0 THEN <<>> ELSE SubSeq(mant, dot + 1, Len(mant))
    IN  IF ~exp.ok THEN NaN
        ELSE IF ~AllIn(int, DecimalDigits) \/ ~AllIn(frac, DecimalDigits) THEN NaN
        ELSE IF int = <<>> /\ frac = <<>> THEN NaN
        ELSE LET digits == StripTrailingZeros(int \o frac)
             IN  Finite(neg, RadixValue(digits, 10),
                        exp.v - Len(frac) + (Len(int \o frac) - Len(digits)))

\* Number(envValue) for a string envValue
Number(raw) ==
    LET s == Trim(raw)
    IN  IF s = <<>> THEN Finite(FALSE, 0, 0)
        ELSE IF s[1] \in {"+", "-"}
            THEN UnsignedDecimalLiteral(SubSeq(s, 2, Len(s)), s[1] = "-")
        ELSE IF Len(s) >= 2 /\ s[1] = "0" /\ s[2] \in {"x", "X", "o", "O", "b", "B"}
            THEN NonDecimalLiteral(s)
        ELSE UnsignedDecimalLiteral(s, FALSE)

(***************************************************************************)
(* String(number): Number::toString of the language, radix 10.             *)
(***************************************************************************)
DigitChar(d) == <<"0", "1", "2", "3", "4", "5", "6", "7", "8", "9">>[d + 1]

\* the decimal digits of a natural number, most significant first
RECURSIVE DigitsOf(_)
DigitsOf(m) == IF m < 10 THEN <<DigitChar(m)>> ELSE Append(DigitsOf(m \div 10), DigitChar(m % 10))

Zeros(n) == [k \in 1..n |-> "0"]

\* exponents up to which toString writes a number without exponent
MaxPlainExponent == 21
\* negative exponents up to which toString writes 0.00ddd
MinPlainExponent == -6

\* The string form of a number value: with digits d1..dk and the value
\* 0.d1..dk * 10^n, plain digits for k <= n <= 21, a point inside for
\* 0 < n < k, 0.000ddd for -6 < n <= 0, and d.ddde+x otherwise.
NumberToString(v) ==
    IF v.cls = "NaN" THEN <<"N", "a", "N">>
    ELSE IF v.cls = "Infinity"
        THEN (IF v.neg THEN <<"-">> ELSE <<>>) \o <<"I", "n", "f", "i", "n", "i", "t", "y">>
    ELSE IF v.m = 0 THEN <<"0">>
    ELSE LET digits == DigitsOf(v.m)
             k == Len(digits)
             n == v.e + k
             exp == n - 1
             sign == IF v.neg THEN <<"-">> ELSE <<>>
         IN  IF k <= n /\ n <= MaxPlainExponent
                 THEN sign \o digits \o Zeros(n - k)
             ELSE IF 0 < n /\ n <= MaxPlainExponent
                 THEN sign \o SubSeq(digits, 1, n) \o <<".">> \o SubSeq(digits, n + 1, k)
             ELSE IF MinPlainExponent < n /\ n <= 0
                 THEN sign \o <<"0", ".">> \o Zeros(0 - n) \o digits
             ELSE sign \o <<digits[1]>>
                       \o (IF k = 1 THEN <<>> ELSE <<".">> \o SubSeq(digits, 2, k))
                       \o <<"e">> \o (IF exp < 0 THEN <<"-">> ELSE <<"+">>)
                       \o DigitsOf(IF exp < 0 THEN 0 - exp ELSE exp)

\* a === b for two numbers: NaN equals nothing, +0 equals -0
StrictEquals(a, b) ==
    /\ a # NaN
    /\ \/ a = b
       \/ /\ a.cls = "finite" /\ b.cls = "finite"
          /\ a.m = 0 /\ b.m = 0

(***************************************************************************)
(* Objects and schema values.                                              *)
(***************************************************************************)
\* a constructor function such as String, Number, Boolean, Date
Fn(name) == [t |-> "function", name |-> name]
\* a property that an object literal does not write
Absent == [t |-> "absent"]

typeof(v) == IF v.t \in {"object", "descriptor"} THEN "object" ELSE v.t

\* obj[name]: undefined when the object has no such property
Get(obj, name) == IF name \in DOMAIN obj THEN obj[name] ELSE Undefined

\* { ...a, ...b }
Spread(a, b) ==
    [k \in DOMAIN a \cup DOMAIN b |-> IF k \in DOMAIN b THEN b[k] ELSE a[k]]

\* An EnvSchemaItem written as an object literal { type, required, default },
\* each property written or not.
Descriptor(type, required, default) ==
    LET val(n) == CASE n = "type" -> type [] n = "required" -> required
                    [] n = "default" -> default
    IN  [t |-> "descriptor",
         o |-> [n \in {f \in {"type", "required", "default"} : val(f) # Absent} |-> val(n)]]

\* a descriptor that writes a default is optional unless required is true
NormalizeDefaultMakesOptional(schemaValue) ==
    IF typeof(schemaValue) = "function"
    THEN [type |-> schemaValue, required |-> Bool(TRUE)]
    ELSE Spread(schemaValue.o,
                [required |-> Bool(IF "required" \in DOMAIN schemaValue.o
                                   THEN schemaValue.o.required # Bool(FALSE)
                                   ELSE "default" \notin DOMAIN schemaValue.o)])

\* The schema item that validateEnv hands to validateEnvVariable for one
\* schema value.
NormalizeSchemaValue(schemaValue) ==
    IF typeof(schemaValue) = "function"
    THEN [type |-> schemaValue, required |-> Bool(TRUE)]
    ELSE Spread(schemaValue.o,
                [required |-> Bool(Get(schemaValue.o, "required") # Bool(FALSE))])

(***************************************************************************)
(* validateEnvVariable                                                     *)
(***************************************************************************)
LitTrue == <<"t", "r", "u", "e">>
LitFalse == <<"f", "a", "l", "s", "e">>

MissingRequired(key) == "Missing required field: " \o key
ShouldBeNumber(key) == key \o " should be a number"
ShouldBeBoolean(key) == key \o " should be a boolean"
UnsupportedType(key) == key \o " has an unsupported type"

\* errors = [message]: the earlier errors are lost
PushErrorKeepingLast(errs, message) == <<message>>

\* errors.push(message)
PushError(errs, message) == Append(errs, message)

\* The result of validateEnvVariable: the returned value (Undefined for a bare
\* return or for falling off the end) and the errors array after the call.
Returned(value, errs) == [value |-> value, errors |-> errs]

\* an optional key without a default resolves to the empty string
MissingCaseEmptyString(key, schemaItem, errs) ==
    IF schemaItem.required = Bool(TRUE)
    THEN Returned(Undefined, PushError(errs, MissingRequired(key)))
    ELSE IF "default" \in DOMAIN schemaItem
         THEN Returned(schemaItem["default"], errs)
         ELSE Returned(Str(<<>>), errs)

\* the default is looked at before required
MissingCaseDefaultFirst(key, schemaItem, errs) ==
    IF "default" \in DOMAIN schemaItem
    THEN Returned(schemaItem["default"], errs)
    ELSE IF schemaItem.required = Bool(TRUE)
         THEN Returned(Undefined, PushError(errs, MissingRequired(key)))
         ELSE Returned(Undefined, errs)

\* envValue === undefined (lines 91-98)
MissingCase(key, schemaItem, errs) ==
    IF schemaItem.required = Bool(TRUE)
    THEN Returned(Undefined, PushError(errs, MissingRequired(key)))
    ELSE IF "default" \in DOMAIN schemaItem
         THEN Returned(schemaItem["default"], errs)
         ELSE Returned(Undefined, errs)

\* a hand-written character check in front of the parse that forgets '+'
NumberCaseRejectingPlus(key, envValue, errs) ==
    LET num == Number(envValue.s)
    IN  IF isNaN(num) \/ \E j \in 1..Len(envValue.s) : envValue.s[j] = "+"
        THEN Returned(Undefined, PushError(errs, ShouldBeNumber(key)))
        ELSE Returned(num, errs)

\* the raw string is returned instead of the parsed number
NumberCaseKeepingRaw(key, envValue, errs) ==
    LET num == Number(envValue.s)
    IN  IF isNaN(num)
        THEN Returned(Undefined, PushError(errs, ShouldBeNumber(key)))
        ELSE Returned(envValue, errs)

\* case Number (lines 101-110)
NumberCase(key, envValue, errs) ==
    LET num == Number(envValue.s)
    IN  IF isNaN(num)
        THEN Returned(Undefined, PushError(errs, ShouldBeNumber(key)))
        ELSE Returned(num, errs)

\* 'TRUE' and '1' are taken for true as well
BooleanCaseWithAliases(key, envValue, errs) ==
    IF envValue.s \notin {LitTrue, LitFalse, <<"T", "R", "U", "E">>, <<"1">>}
    THEN Returned(Undefined, PushError(errs, ShouldBeBoolean(key)))
    ELSE Returned(Bool(envValue.s # LitFalse), errs)

\* case Boolean (lines 111-117)
BooleanCase(key, envValue, errs) ==
    IF envValue.s # LitTrue /\ envValue.s # LitFalse
    THEN Returned(Undefined, PushError(errs, ShouldBeBoolean(key)))
    ELSE Returned(Bool(envValue.s = LitTrue), errs)

\* envValue.trim() is stored
StringCaseTrimmed(key, envValue, errs) == Returned(Str(Trim(envValue.s)), errs)

\* case String (lines 118-119)
StringCase(key, envValue, errs) == Returned(envValue, errs)

\* an unsupported type is taken as String
DefaultCaseAsString(key, envValue, errs) == Returned(envValue, errs)

\* default (lines 120-121)
DefaultCase(key, envValue, errs) ==
    Returned(Undefined, PushError(errs, UnsupportedType(key)))

\* a value of the wrong type falls back to the default of the schema item
validateEnvVariableWithFallback(key, envValue, schemaItem, errs) ==
    IF envValue = Undefined
    THEN MissingCase(key, schemaItem, errs)
    ELSE LET type == Get(schemaItem, "type")
             typed == CASE type = Fn("Number") -> NumberCase(key, envValue, errs)
                        [] type = Fn("Boolean") -> BooleanCase(key, envValue, errs)
                        [] type = Fn("String") -> StringCase(key, envValue, errs)
                        [] OTHER -> DefaultCase(key, envValue, errs)
         IN  IF typed.value = Undefined /\ "default" \in DOMAIN schemaItem
             THEN Returned(schemaItem["default"], errs)
             ELSE typed

\* validateEnvVariable (lines 90-123)
validateEnvVariable(key, envValue, schemaItem, errs) ==
    IF envValue = Undefined
    THEN MissingCase(key, schemaItem, errs)
    ELSE LET type == Get(schemaItem, "type")
         IN  CASE type = Fn("Number") -> NumberCase(key, envValue, errs)
               [] type = Fn("Boolean") -> BooleanCase(key, envValue, errs)
               [] type = Fn("String") -> StringCase(key, envValue, errs)
               [] OTHER -> DefaultCase(key, envValue, errs)

(***************************************************************************)
(* The state of one call validateEnv(schema, configOrEnvFile, envFile).    *)
(***************************************************************************)
VARIABLES
    schema,           \* Object.entries(schema): sequence of [key, value]
    configOrEnvFile,  \* second argument: undefined, a file name or an object
    envFileParam,     \* third argument: undefined or a file name
    processEnv,       \* process.env: key -> raw string
    fileExists,       \* fs.existsSync(envPath)
    dotenvResult,     \* what dotenv.config returns for the file at envPath
    env,              \* the environment returned by loadEnvFile
    envConfig,        \* key -> validated value
    errors,           \* the errors array
    i,                \* position of the for-of loop in the entries
    console,          \* lines written with console.error
    outcome,          \* how the call ended
    pc

vars == <<schema, configOrEnvFile, envFileParam, processEnv, fileExists,
          dotenvResult, env, envConfig, errors, i, console, outcome, pc>>

inputs == <<schema, configOrEnvFile, envFileParam, fileExists, dotenvResult>>

\* file names are kept whole, not character by character
FileName(name) == [t |-> "string", s |-> name]
ConfigObject(o) == [t |-> "object", o |-> o]

(***************************************************************************)
(* loadEnvFile                                                             *)
(***************************************************************************)
\* dotenv.config without override: sets in process.env the parsed keys that
\* process.env does not have yet
DotenvPopulate(penv, parsed) == Spread(parsed, penv)

\* { ...result.parsed, ...process.env }: the ambient value wins
OverlayAmbient(penv, parsed) == Spread(parsed, penv)

\* { ...process.env, ...result.parsed }
OverlayParsed(penv, parsed) == Spread(penv, parsed)

\* envFile after the default parameter value '.env' applies
DefaultEnvFile(envFile) == IF envFile = Undefined THEN FileName(".env") ELSE envFile

\* on a load error the (missing) parsed object is used: process.env is lost
loadEnvFileLosingAmbient(envFileArg, penv, exists, result, out) ==
    LET envFile == DefaultEnvFile(envFileArg)
    IN  IF exists
        THEN IF "error" \in DOMAIN result
             THEN [env |-> <<>>, processEnv |-> penv,
                   console |-> Append(out, "Error loading " \o envFile.s \o ": " \o result.error)]
             ELSE [env |-> OverlayParsed(DotenvPopulate(penv, result.parsed), result.parsed),
                   processEnv |-> DotenvPopulate(penv, result.parsed),
                   console |-> out]
        ELSE [env |-> penv, processEnv |-> penv, console |-> out]

\* The environment returned, process.env after the call, and the console.
loadEnvFile(envFileArg, penv, exists, result, out) ==
    LET envFile == DefaultEnvFile(envFileArg)
    IN  IF exists
        THEN IF "error" \in DOMAIN result
             THEN [env |-> penv, processEnv |-> penv,
                   console |-> Append(out, "Error loading " \o envFile.s \o ": " \o result.error)]
             ELSE [env |-> OverlayParsed(DotenvPopulate(penv, result.parsed), result.parsed),
                   processEnv |-> DotenvPopulate(penv, result.parsed),
                   console |-> out]
        ELSE [env |-> penv, processEnv |-> penv, console |-> out]

(***************************************************************************)
(* validateEnv                                                             *)
(***************************************************************************)
\* const envConfig = process.env: the config starts as the loaded environment
InitialConfigFromEnv(loaded) == [k \in DOMAIN loaded |-> Str(loaded[k])]

\* const envConfig = {} (line 169), whatever the loaded environment holds
InitialConfig(loaded) == <<>>

\* env = { ...loadEnvFile(envFile), ...config }: the entries of a config
\* object are laid over the loaded environment
LoadedEnvOverlaidByConfig(config, envFileArg, penv, exists, result, out) ==
    LET envFile == IF typeof(config) = "string" THEN config ELSE envFileArg
        loaded == loadEnvFile(envFile, penv, exists, result, out)
    IN  IF typeof(config) = "object"
        THEN [loaded EXCEPT !.env = Spread(loaded.env, config.o)]
        ELSE loaded

\* lines 167-168: a string second argument is the file name, otherwise the
\* third argument is; the environment is what loadEnvFile gives for it
LoadedEnv(config, envFileArg, penv, exists, result, out) ==
    LET envFile == IF typeof(config) = "string" THEN config ELSE envFileArg
    IN  loadEnvFile(envFile, penv, exists, result, out)

\* lines 167-170: pick the file name, load the environment, start empty
Load ==
    /\ pc = "start"
    /\ LET loaded == LoadedEnv(configOrEnvFile, envFileParam, processEnv,
                               fileExists, dotenvResult, console)
       IN  /\ env' = loaded.env
           /\ processEnv' = loaded.processEnv
           /\ console' = loaded.console
    /\ envConfig' = InitialConfig(env')
    /\ errors' = <<>>
    /\ i' = 1
    /\ pc' = "loop"
    /\ UNCHANGED <<inputs, outcome>>

\* env[key] as a value: a string, or undefined for a key env does not have
EnvValue(e, key) == IF key \in DOMAIN e THEN Str(e[key]) ELSE Undefined

\* if (validatedValue): a falsy value (false, 0, '', NaN) is not stored
StoreValidatedIfTruthy(config, key, validatedValue) ==
    IF validatedValue \notin {Undefined, Bool(FALSE), Str(<<>>), NaN,
                              Finite(FALSE, 0, 0), Finite(TRUE, 0, 0)}
    THEN Spread(config, [k \in {key} |-> validatedValue])
    ELSE config

\* envConfig[key] = validatedValue, when validatedValue is not undefined
StoreValidated(config, key, validatedValue) ==
    IF validatedValue # Undefined
    THEN Spread(config, [k \in {key} |-> validatedValue])
    ELSE config

\* schemaValue.required (line 176) raises a TypeError on undefined, the one
\* value that is neither a function nor an object with properties to read
PropertyReadRaisesWithoutType(schemaValue) ==
    \/ typeof(schemaValue) = "undefined"
    \/ typeof(schemaValue) = "object" /\ "type" \notin DOMAIN schemaValue.o

PropertyReadRaises(schemaValue) == typeof(schemaValue) = "undefined"

\* one iteration of the for-of loop (lines 172-184)
ValidateKey ==
    /\ pc = "loop"
    /\ i <= Len(schema)
    /\ IF PropertyReadRaises(schema[i].value)
       THEN /\ outcome' = [kind |-> "raised", name |-> "TypeError"]
            /\ pc' = "done"
            /\ UNCHANGED <<errors, envConfig, i>>
       ELSE /\ LET key == schema[i].key
                   schemaItem == NormalizeSchemaValue(schema[i].value)
                   envValue == EnvValue(env, key)
                   validated == validateEnvVariable(key, envValue, schemaItem, errors)
               IN  /\ errors' = validated.errors
                   /\ envConfig' = StoreValidated(envConfig, key, validated.value)
            /\ i' = i + 1
            /\ UNCHANGED <<outcome, pc>>
    /\ UNCHANGED <<inputs, processEnv, env, console>>

\* `- ${error}` for each error
FormatErrors(errs) == [k \in 1..Len(errs) |-> "- " \o errs[k]]

FailedHeader == "Environment validation failed:"

\* if (configOrEnvFile): a file name as second argument raises as well
ReportRaisingForAnyArgument ==
    /\ pc = "loop"
    /\ i > Len(schema)
    /\ IF Len(errors) # 0
       THEN IF typeof(configOrEnvFile) # "undefined"
            THEN /\ outcome' = [kind |-> "thrown",
                                message |-> <<FailedHeader>> \o FormatErrors(errors)]
                 /\ console' = console
            ELSE /\ console' = console \o <<FailedHeader>> \o FormatErrors(errors)
                 /\ outcome' = [kind |-> "exited", code |-> 1]
       ELSE /\ outcome' = [kind |-> "returned", value |-> envConfig]
            /\ console' = console
    /\ pc' = "done"
    /\ UNCHANGED <<inputs, processEnv, env, envConfig, errors, i>>

\* process.exit is missing: the errors are printed and envConfig is returned
ReportReturningAfterPrint ==
    /\ pc = "loop"
    /\ i > Len(schema)
    /\ IF Len(errors) # 0
       THEN IF typeof(configOrEnvFile) = "object"
            THEN /\ outcome' = [kind |-> "thrown",
                                message |-> <<FailedHeader>> \o FormatErrors(errors)]
                 /\ console' = console
            ELSE /\ console' = console \o <<FailedHeader>> \o FormatErrors(errors)
                 /\ outcome' = [kind |-> "returned", value |-> envConfig]
       ELSE /\ outcome' = [kind |-> "returned", value |-> envConfig]
            /\ console' = console
    /\ pc' = "done"
    /\ UNCHANGED <<inputs, processEnv, env, envConfig, errors, i>>

\* after the loop (lines 186-197): throw, print and exit, or return
Report ==
    /\ pc = "loop"
    /\ i > Len(schema)
    /\ IF Len(errors) # 0
       THEN IF typeof(configOrEnvFile) = "object"
            THEN /\ outcome' = [kind |-> "thrown",
                                message |-> <<FailedHeader>> \o FormatErrors(errors)]
                 /\ console' = console
            ELSE /\ console' = console \o <<FailedHeader>> \o FormatErrors(errors)
                 /\ outcome' = [kind |-> "exited", code |-> 1]
       ELSE /\ outcome' = [kind |-> "returned", value |-> envConfig]
            /\ console' = console
    /\ pc' = "done"
    /\ UNCHANGED <<inputs, processEnv, env, envConfig, errors, i>>

Next == Load \/ ValidateKey \/ Report

(***************************************************************************)
(* Inputs: schemas, environments, files and call shapes.                   *)
(***************************************************************************)
\* the i-th key of a schema, in Object.entries order
KeyNames == <<"A", "B", "C", "D">>
\* a key of the environment that no schema declares
OtherKey == "Z"

TypeTags == {Fn("String"), Fn("Number"), Fn("Boolean"), Fn("Date")}

Num0 == Finite(FALSE, 0, 0)
Num8080 == Finite(FALSE, 8080, 0)

\* defaults authored in the declared type, each with a falsy one
DefaultsOf(type) ==
    CASE type = Fn("Number") -> {Num0, Num8080}
      [] type = Fn("Boolean") -> {Bool(FALSE), Bool(TRUE)}
      [] type = Fn("String") -> {Str(<<>>), Str(<<"l", "o", "c", "a", "l">>)}
      [] OTHER -> {Str(<<"x">>)}

Descriptors ==
    UNION { { Descriptor(type, required, default) :
                required \in {Absent, Bool(TRUE), Bool(FALSE)},
                default \in {Absent} \cup DefaultsOf(type) } :
            type \in TypeTags \cup {Absent} }

\* bare type tags and descriptors
SchemaValues == TypeTags \cup Descriptors

RawSamples ==
    { <<>>, LitTrue, LitFalse, <<"1">>, <<"T", "R", "U", "E">>, <<"y", "e", "s">>,
      <<"3", "0", "0", "0">>, <<" ", "4", "2", " ">> }

\* one schema key: its schema value and its raw value (Undefined: not set)
KeyCases == [value : SchemaValues, raw : {Str(r) : r \in RawSamples} \cup {Undefined}]

\* keys around the key under study: one of each outcome
ContextCases ==
    { [value |-> Fn("Number"), raw |-> Str(<<"1">>)],
      [value |-> Fn("Number"), raw |-> Str(<<"y", "e", "s">>)],
      [value |-> Fn("Boolean"), raw |-> Undefined],
      [value |-> Descriptor(Fn("Boolean"), Bool(FALSE), Bool(FALSE)), raw |-> Undefined] }

\* the environment that sets key k to the string raw(k), or leaves it unset
\* when raw(k) is Undefined
EnvOf(keys, raw(_)) == [k \in {x \in keys : raw(x) # Undefined} |-> raw(k).s]

SchemaKeys(n) == {KeyNames[k] : k \in 1..n}
KeyIndex(key) == CHOOSE k \in 1..Len(KeyNames) : KeyNames[k] = key

CallShapes ==
    { [configOrEnvFile |-> Undefined, envFileParam |-> Undefined],
      [configOrEnvFile |-> FileName("test.env"), envFileParam |-> Undefined],
      [configOrEnvFile |-> ConfigObject(<<>>), envFileParam |-> Undefined],
      [configOrEnvFile |-> ConfigObject([A |-> <<"9">>]), envFileParam |-> FileName("test.env")] }

DotenvError == [error |-> "Mocked dotenv error"]

\* raw values that the file gives the key under study
FileSamples == { LitFalse, <<"8">> }

\* no file
NoFile == [exists |-> FALSE, result |-> [parsed |-> <<>>]]
\* a file that dotenv fails to load
BadFile == [exists |-> TRUE, result |-> DotenvError]
\* a file that sets OtherKey and, unless raw is Undefined, key to raw
FileSetting(key, raw) ==
    [exists |-> TRUE,
     result |-> [parsed |-> EnvOf({key, OtherKey},
                                  LAMBDA k : IF k = key THEN raw ELSE Str(<<"f">>))]]

FilesFor(key) ==
    {NoFile, BadFile}
        \cup {FileSetting(key, raw) : raw \in {Str(r) : r \in FileSamples} \cup {Undefined}}

StartWith(cases, penv, call, file) ==
    /\ schema = [k \in 1..Len(cases) |-> [key |-> KeyNames[k], value |-> cases[k].value]]
    /\ configOrEnvFile = call.configOrEnvFile
    /\ envFileParam = call.envFileParam
    /\ processEnv = penv
    /\ fileExists = file.exists
    /\ dotenvResult = file.result
    /\ env = <<>>
    /\ envConfig = <<>>
    /\ errors = <<>>
    /\ i = 1
    /\ console = <<>>
    /\ outcome = [kind |-> "none"]
    /\ pc = "start"

\* the ambient environment of a schema with these cases: each key as its case
\* says, and OtherKey
AmbientOf(cases) ==
    EnvOf(SchemaKeys(Len(cases)) \cup {OtherKey},
          LAMBDA key : IF key = OtherKey THEN Str(<<"z">>) ELSE cases[KeyIndex(key)].raw)

\* Any schema value, ambient value and file value at one position f of the
\* schema, and context keys at the other positions.
Init ==
    \E n \in 1..MaxKeys, f \in 1..MaxKeys, focus \in KeyCases, call \in CallShapes :
      /\ f <= n
      /\ \E ctx \in [1..n -> ContextCases], file \in FilesFor(KeyNames[f]) :
           /\ ctx[f] = CHOOSE c \in ContextCases : TRUE
           /\ StartWith([k \in 1..n |-> IF k = f THEN focus ELSE ctx[k]],
                        AmbientOf([k \in 1..n |-> IF k = f THEN focus ELSE ctx[k]]),
                        call, file)

Spec == Init /\ [][Next]_vars

\* characters of number literals: digits, a hex letter, the exponent marker
\* (also a hex letter), the hex prefix, a sign, the point and white space
NumberChars == {"0", "1", "a", "e", "x", "-", ".", " "}

\* every string of at most MaxLen of these characters
NumberStrings == UNION { [1..n -> NumberChars] : n \in 0..MaxLen }

LongerNumberStrings ==
    { <<"I", "n", "f", "i", "n", "i", "t", "y">>,
      <<"-", "I", "n", "f", "i", "n", "i", "t", "y">>,
      <<"+", "1", ".", "5", "E", "+", "2">>,
      <<"9", "e", "9", "9", "9">>,
      <<"1", "e", "2", "1">>,
      <<"0", "b", "1", "0", "1">>,
      <<"1", "2", "p", "x">> }

NumberSchemaValues ==
    { Fn("Number"),
      Descriptor(Fn("Number"), Absent, Absent),
      Descriptor(Fn("Number"), Bool(FALSE), Num0) }

\* One Number key whose raw value is any short string.
InitNumber ==
    \E value \in NumberSchemaValues, raw \in NumberStrings \cup LongerNumberStrings,
       call \in CallShapes :
      StartWith(<<[value |-> value, raw |-> Str(raw)]>>,
                AmbientOf(<<[value |-> value, raw |-> Str(raw)]>>), call, NoFile)

SpecNumber == InitNumber /\ [][Next]_vars

(***************************************************************************)
(* Vocabulary of the properties.                                           *)
(***************************************************************************)
\* positions of the schema that the loop has handled
Processed == 1..(i - 1)

\* the declared type of a schema value: the bare tag, or the descriptor's type
DeclaredType(value) == IF value.t = "function" THEN value ELSE Get(value.o, "type")

\* a bare tag, or a descriptor whose required is not explicitly false
IsRequiredEntry(value) ==
    value.t = "function" \/ Get(value.o, "required") # Bool(FALSE)

HasDefault(value) == value.t = "descriptor" /\ "default" \in DOMAIN value.o

SupportedTypes == {Fn("String"), Fn("Number"), Fn("Boolean")}

\* the value of the key in the resolved environment
Resolved(key) == EnvValue(env, key)

MessagesAbout(key) ==
    {MissingRequired(key), ShouldBeNumber(key), ShouldBeBoolean(key), UnsupportedType(key)}

\* positions of the error list that hold a message about the key
ErrorsAbout(key) == {j \in 1..Len(errors) : errors[j] \in MessagesAbout(key)}

NoErrorAbout(key) == ErrorsAbout(key) = {}

\* the error list holds exactly one message about the key, and it is message
OnlyError(key, message) ==
    /\ Cardinality(ErrorsAbout(key)) = 1
    /\ \A j \in ErrorsAbout(key) : errors[j] = message

NoEntry(key) == key \notin DOMAIN envConfig

HasEntry(key, value) == key \in DOMAIN envConfig /\ envConfig[key] = value

\* The violation of the entry at position k, as a sequence of zero or one
\* message: missing-required, wrong type, unsupported type.
ViolationAt(k) ==
    LET key == schema[k].key
        value == Resolved(key)
        type == DeclaredType(schema[k].value)
    IN  IF value = Undefined
        THEN IF IsRequiredEntry(schema[k].value) THEN <<MissingRequired(key)>> ELSE <<>>
        ELSE IF type = Fn("Number")
             THEN IF Number(value.s) = NaN THEN <<ShouldBeNumber(key)>> ELSE <<>>
        ELSE IF type = Fn("Boolean")
             THEN IF value.s \notin {LitTrue, LitFalse} THEN <<ShouldBeBoolean(key)>> ELSE <<>>
        ELSE IF type = Fn("String") THEN <<>>
        ELSE <<UnsupportedType(key)>>

\* the messages of the first n entries, in schema order
RECURSIVE ViolationsUpTo(_)
ViolationsUpTo(n) == IF n = 0 THEN <<>> ELSE ViolationsUpTo(n - 1) \o ViolationAt(n)

Done == pc = "done"

(***************************************************************************)
(* Properties.                                                             *)
(***************************************************************************)

\* C1: collect-all.  Once the keys 1..i-1 have been handled, the error list is
\* exactly one message for every one of them that is in violation
\* (missing-required, wrong type, unsupported type), in schema key order: no
\* violation is dropped and the loop does not stop at the first one.
C1_CollectAllInSchemaOrder ==
    pc # "start" => errors = ViolationsUpTo(i - 1)

\* C1 witness: a finished call whose two keys are both in violation.
C1_Witness ==
    /\ Done
    /\ Len(schema) = 2
    /\ ViolationAt(1) # <<>> /\ ViolationAt(2) # <<>>
    /\ ViolationAt(1)[1] # MissingRequired("A")
    /\ Len(errors) = 2

\* C2: a required key that is present with an empty-string value is reported
\* as 'Missing required field: {key}' and gets no config entry, whatever its
\* declared type.
C2_EmptyStringIsMissing ==
    \A k \in Processed :
        (IsRequiredEntry(schema[k].value) /\ Resolved(schema[k].key) = Str(<<>>))
            => /\ OnlyError(schema[k].key, MissingRequired(schema[k].key))
               /\ NoEntry(schema[k].key)

C4_OptionalDefaultUsed ==
    \A k \in Processed :
        ( /\ ~IsRequiredEntry(schema[k].value)
          /\ HasDefault(schema[k].value)
          /\ Resolved(schema[k].key) = Undefined )
            => /\ HasEntry(schema[k].key, schema[k].value.o["default"])
               /\ NoErrorAbout(schema[k].key)
               /\ outcome.kind = "returned"
                    => /\ schema[k].key \in DOMAIN outcome.value
                       /\ outcome.value[schema[k].key] = schema[k].value.o["default"]

\* C4 witness: a call that returned the default false for an optional key
\* without a value.
C4_Witness ==
    /\ outcome.kind = "returned"
    /\ \E k \in Processed :
        /\ ~IsRequiredEntry(schema[k].value)
        /\ HasDefault(schema[k].value)
        /\ schema[k].value.o["default"] \in {Bool(FALSE), Num0}
        /\ Resolved(schema[k].key) = Undefined
        /\ outcome.value[schema[k].key] = schema[k].value.o["default"]

C6_DefaultWithoutRequiredIsOptional ==
    \A k \in Processed :
        ( /\ HasDefault(schema[k].value)
          /\ "required" \notin DOMAIN schema[k].value.o
          /\ Resolved(schema[k].key) = Undefined )
            => /\ NoErrorAbout(schema[k].key)
               /\ HasEntry(schema[k].key, schema[k].value.o["default"])

\* C7: a Boolean key with a value is accepted only for exactly 'true' (stored
\* as true) or exactly 'false' (stored as false), without an error; every
\* other string gets '{key} should be a boolean' and no entry.
C7_BooleanOnlyTwoLiterals ==
    \A k \in Processed :
        LET key == schema[k].key
            raw == Resolved(key)
        IN  (DeclaredType(schema[k].value) = Fn("Boolean") /\ raw # Undefined)
            => IF raw.s = <<"t", "r", "u", "e">>
                   THEN HasEntry(key, Bool(TRUE)) /\ NoErrorAbout(key)
               ELSE IF raw.s = <<"f", "a", "l", "s", "e">>
                   THEN HasEntry(key, Bool(FALSE)) /\ NoErrorAbout(key)
               ELSE OnlyError(key, ShouldBeBoolean(key)) /\ NoEntry(key)

\* C7 witness: a finished call that rejected 'TRUE' for a Boolean key.
C7_Witness ==
    /\ Done
    /\ \E k \in Processed :
        /\ DeclaredType(schema[k].value) = Fn("Boolean")
        /\ Resolved(schema[k].key) = Str(<<"T", "R", "U", "E">>)
        /\ OnlyError(schema[k].key, ShouldBeBoolean(schema[k].key))

\* C8: a Number key with a value: when the numeric parse of the raw string
\* is NaN, '{key} should be a number' is the key's only error and there is no
\* entry; otherwise the entry is the parsed number, not the raw string, and
\* there is no error about the key.
C8_NumberParsedOrRejected ==
    \A k \in Processed :
        LET key == schema[k].key
            raw == Resolved(key)
        IN  (DeclaredType(schema[k].value) = Fn("Number") /\ raw # Undefined)
            => IF Number(raw.s) = NaN
               THEN OnlyError(key, ShouldBeNumber(key)) /\ NoEntry(key)
               ELSE /\ HasEntry(key, Number(raw.s))
                    /\ envConfig[key].t = "number"
                    /\ NoErrorAbout(key)

\* C8 witness: a finished call that stored 26 for the raw value '0x1a'.
C8_Witness ==
    /\ Done
    /\ Resolved("A") = Str(<<"0", "x", "1", "a">>)
    /\ HasEntry("A", Finite(FALSE, 26, 0))
    /\ errors = <<>>

\* C9 as claimed: a key whose declared type is not String, Number or Boolean
\* always gets '{key} has an unsupported type' and no entry.
C9_UnsupportedAlways ==
    \A k \in Processed :
        DeclaredType(schema[k].value) \notin SupportedTypes
            => /\ OnlyError(schema[k].key, UnsupportedType(schema[k].key))
               /\ NoEntry(schema[k].key)

\* C9 amended: a key whose declared type is not String, Number or Boolean and
\* that has a value in the resolved environment gets '{key} has an
\* unsupported type' as its only error, and no entry.
C9_UnsupportedWhenPresent ==
    \A k \in Processed :
        ( /\ DeclaredType(schema[k].value) \notin SupportedTypes
          /\ Resolved(schema[k].key) # Undefined )
            => /\ OnlyError(schema[k].key, UnsupportedType(schema[k].key))
               /\ NoEntry(schema[k].key)

\* C9 witness: a finished call with a value for a key of a descriptor that has
\* no supported type.
C9_Witness ==
    /\ Done
    /\ \E k \in Processed :
        /\ schema[k].value.t = "descriptor"
        /\ DeclaredType(schema[k].value) \notin SupportedTypes
        /\ Resolved(schema[k].key) # Undefined
        /\ OnlyError(schema[k].key, UnsupportedType(schema[k].key))

\* the file was found and dotenv loaded it
FileLoaded == fileExists /\ "parsed" \in DOMAIN dotenvResult

\* C10: when the file is loaded, the environment that is validated has, for
\* every key the file defines, the file's value, also when process.env has
\* another value for it; and for every other key, what process.env has.  The
\* entry of a String key that the file defines is the file's value.
C10_FileOverlaysAmbient ==
    (pc # "start" /\ FileLoaded) =>
        /\ \A key \in DOMAIN env \cup DOMAIN processEnv \cup DOMAIN dotenvResult.parsed :
            IF key \in DOMAIN dotenvResult.parsed
            THEN Resolved(key) = Str(dotenvResult.parsed[key])
            ELSE Resolved(key) = EnvValue(processEnv, key)
        /\ \A k \in Processed :
            (schema[k].value = Fn("String") /\ schema[k].key \in DOMAIN dotenvResult.parsed)
                => HasEntry(schema[k].key, Str(dotenvResult.parsed[schema[k].key]))

\* C10 witness: a finished call where the file and process.env give a String
\* key different values and the entry is the file's.
C10_Witness ==
    /\ Done
    /\ FileLoaded
    /\ \E k \in Processed :
        LET key == schema[k].key
        IN  /\ schema[k].value = Fn("String")
            /\ key \in DOMAIN dotenvResult.parsed
            /\ key \in DOMAIN processEnv
            /\ processEnv[key] # dotenvResult.parsed[key]
            /\ HasEntry(key, Str(dotenvResult.parsed[key]))

\* a value that is present and valid for the declared type
ValidFor(type, value) ==
    /\ value # Undefined
    /\ CASE type = Fn("Number") -> Number(value.s) # NaN
         [] type = Fn("Boolean") -> value.s \in {<<"t", "r", "u", "e">>, <<"f", "a", "l", "s", "e">>}
         [] type = Fn("String") -> TRUE
         [] OTHER -> FALSE

\* the typed value of a valid raw value
Coerced(type, value) ==
    CASE type = Fn("Number") -> Number(value.s)
      [] type = Fn("Boolean") -> Bool(value.s = <<"t", "r", "u", "e">>)
      [] OTHER -> value

\* every error of the list is a message about a handled schema key
ErrorsOnlyAboutSchemaKeys ==
    \A j \in 1..Len(errors) : \E k \in Processed : errors[j] \in MessagesAbout(schema[k].key)

\* C11: when the file does not exist or dotenv reports an error for it, the
\* environment that is validated is process.env itself, the loop still visits
\* every key, the error list holds only messages about schema keys, and a
\* schema whose keys all have a valid value in process.env returns its typed
\* config.
C11_UnavailableFileFallsBackToAmbient ==
    (pc # "start" /\ ~FileLoaded) =>
        /\ env = processEnv
        /\ ErrorsOnlyAboutSchemaKeys
        /\ Done => i = Len(schema) + 1
        /\ ( /\ Done
             /\ \A k \in 1..Len(schema) :
                  ValidFor(DeclaredType(schema[k].value), EnvValue(processEnv, schema[k].key)) )
             => /\ errors = <<>>
                /\ outcome = [kind |-> "returned",
                              value |-> [key \in {schema[k].key : k \in 1..Len(schema)} |->
                                          Coerced(DeclaredType(schema[KeyIndex(key)].value),
                                                  EnvValue(processEnv, key))]]

\* C11 witness: dotenv failed to load the file that exists, the failure was
\* printed, and the call returned a config from process.env.
C11_Witness ==
    /\ Done
    /\ fileExists /\ "error" \in DOMAIN dotenvResult
    /\ Len(console) = 1
    /\ outcome.kind = "returned"
    /\ DOMAIN outcome.value = {"A", "B"}

C13_NoPartialConfig ==
    /\ outcome.kind = "returned" => (errors = <<>> /\ outcome.value = envConfig)
    /\ (Done /\ errors # <<>>) =>
          (outcome.kind \in {"exited", "thrown"} /\ "value" \notin DOMAIN outcome)

\* C13 witness: a finished call with one key validated and another in error.
C13_Witness ==
    /\ Done
    /\ errors # <<>>
    /\ envConfig # <<>>
    /\ outcome.kind = "exited"

\* handled schema keys with at least one error message
ErroringKeys == {schema[k].key : k \in {j \in Processed : ~NoErrorAbout(schema[j].key)}}

\* handled positions whose key has a value in the resolved environment
ProvidedAt == {k \in Processed : Resolved(schema[k].key) # Undefined}

\* handled positions with a missing-required outcome
MissingRequiredAt ==
    {k \in Processed : MissingRequired(schema[k].key) \in {errors[j] : j \in 1..Len(errors)}}

\* handled positions with an unsupported-type outcome
UnsupportedAt ==
    {k \in Processed : UnsupportedType(schema[k].key) \in {errors[j] : j \in 1..Len(errors)}}

\* handled positions of optional keys without a value whose default is used
DefaultedAt ==
    {k \in Processed : /\ Resolved(schema[k].key) = Undefined
                       /\ ~IsRequiredEntry(schema[k].value)
                       /\ HasDefault(schema[k].value)
                       /\ schema[k].value.o["default"] # Undefined}

\* C14 as claimed: config entries plus distinct erroring keys are as many as
\* the schema keys that were provided or had a missing-required or
\* unsupported-type outcome.
C14_AccountingProvidedOrError ==
    Cardinality(DOMAIN envConfig) + Cardinality(ErroringKeys)
        = Cardinality(ProvidedAt \cup MissingRequiredAt \cup UnsupportedAt)

\* C14 amended: config entries plus distinct erroring keys are as many as the
\* schema keys that were provided, or had a missing-required or
\* unsupported-type outcome, or were optional without a value and took their
\* default.
C14_AccountingWithDefaults ==
    Cardinality(DOMAIN envConfig) + Cardinality(ErroringKeys)
        = Cardinality(ProvidedAt \cup MissingRequiredAt \cup UnsupportedAt \cup DefaultedAt)

\* C14 witness: a finished call with one entry from a default, one erroring
\* key and nothing else.
C14_Witness ==
    /\ Done
    /\ Len(schema) = 2
    /\ Cardinality(DefaultedAt) = 1
    /\ Cardinality(ErroringKeys) = 1
    /\ Cardinality(DOMAIN envConfig) = 1

\* C15: round trip of the Number coercion.  For every raw string accepted
\* for a Number key, validating the string form of the stored number for the
\* same key is accepted again, without an error, and yields the same number
\* (equal by ===, so that -0 and 0 are the same).
C15_NumberRoundTrip ==
    \A k \in Processed :
        LET key == schema[k].key
        IN  ( /\ DeclaredType(schema[k].value) = Fn("Number")
              /\ Resolved(key) # Undefined
              /\ NoErrorAbout(key)
              /\ key \in DOMAIN envConfig )
            => LET again == validateEnvVariable(key, Str(NumberToString(envConfig[key])),
                                                NormalizeSchemaValue(schema[k].value), <<>>)
               IN  /\ again.errors = <<>>
                   /\ again.value.t = "number"
                   /\ StrictEquals(again.value, envConfig[key])

\* C15 witness: '1e21' was accepted and its stored number has the string form
\* '1e+21', which differs from the raw string.
C15_Witness ==
    /\ Done
    /\ Resolved("A") = Str(<<"1", "e", "2", "1">>)
    /\ "A" \in DOMAIN envConfig
    /\ NumberToString(envConfig["A"]) = <<"1", "e", "+", "2", "1">>

\* C16: when every schema key has a value that is valid for its type, there
\* are no errors, the config has exactly one entry per schema key, the typed
\* value of its raw value, and that config is returned; the entry of a String
\* key is the raw string itself, whatever non-empty string it is.
C16_AllValidGivesFullConfig ==
    ( /\ Done
      /\ \A k \in 1..Len(schema) :
           ValidFor(DeclaredType(schema[k].value), Resolved(schema[k].key)) )
        => /\ errors = <<>>
           /\ DOMAIN envConfig = {schema[k].key : k \in 1..Len(schema)}
           /\ \A k \in 1..Len(schema) :
                /\ envConfig[schema[k].key]
                     = Coerced(DeclaredType(schema[k].value), Resolved(schema[k].key))
                /\ DeclaredType(schema[k].value) = Fn("String")
                     => envConfig[schema[k].key] = Str(env[schema[k].key])
           /\ outcome = [kind |-> "returned", value |-> envConfig]

\* C16 witness: a returned config with two entries, one of them the raw
\* string ' 42 ' of a String key, unchanged.
C16_Witness ==
    /\ outcome.kind = "returned"
    /\ Len(schema) = 2
    /\ DOMAIN outcome.value = {"A", "B"}
    /\ \E k \in 1..2 :
         /\ DeclaredType(schema[k].value) = Fn("String")
         /\ outcome.value[schema[k].key] = Str(<<" ", "4", "2", " ">>)

\* C17: normalization and per-key resolution never raise.  For bare tags and
\* descriptors, a descriptor without a type or with an invalid type included,
\* nothing is raised from inside the loop, the call ends only after the pass
\* over all keys, what it throws is the list of collected errors, and a
\* present value of a key without a supported type is one entry of that list.
C17_LoopNeverRaises ==
    /\ outcome.kind \in {"none", "returned", "thrown", "exited"}
    /\ Done => i = Len(schema) + 1
    /\ outcome.kind = "thrown" => outcome.message = <<FailedHeader>> \o FormatErrors(errors)
    /\ \A k \in Processed :
         ( /\ DeclaredType(schema[k].value) \notin SupportedTypes
           /\ Resolved(schema[k].key) # Undefined )
             => /\ OnlyError(schema[k].key, UnsupportedType(schema[k].key))
                /\ NoEntry(schema[k].key)

\* C17 witness: a call that threw after the pass over two keys, one of them
\* a descriptor without a type whose present value is one of the two
\* collected errors.
C17_Witness ==
    /\ outcome.kind = "thrown"
    /\ i = 3
    /\ Len(errors) = 2
    /\ \E k \in 1..2 :
         /\ typeof(schema[k].value) = "object"
         /\ "type" \notin DOMAIN schema[k].value.o
         /\ Resolved(schema[k].key) # Undefined
         /\ UnsupportedType(schema[k].key) \in {errors[j] : j \in 1..2}

\* handled positions whose key resolved to a value: no violation, and a
\* provided value or a default that is used
ResolvedAt ==
    {k \in Processed : /\ ViolationAt(k) = <<>>
                       /\ k \in ProvidedAt \cup DefaultedAt}

\* C18: at every point of the pass, and after it, the keys of the config are
\* exactly the handled schema keys that resolved to a value; a key of the
\* environment that is not in the schema is never a key of the config; no
\* schema key has both a config entry and an error message, and none has more
\* than one error message.
C18_ConfigKeysAreResolvedSchemaKeys ==
    /\ DOMAIN envConfig = {schema[k].key : k \in ResolvedAt}
    /\ DOMAIN envConfig \subseteq {schema[k].key : k \in 1..Len(schema)}
    /\ OtherKey \notin DOMAIN envConfig
    /\ \A k \in 1..Len(schema) :
         /\ ~(schema[k].key \in DOMAIN envConfig /\ ~NoErrorAbout(schema[k].key))
         /\ Cardinality(ErrorsAbout(schema[k].key)) <= 1
    /\ outcome.kind = "returned" => DOMAIN outcome.value = DOMAIN envConfig

\* C18 witness: after the pass over two keys, with a key outside the schema
\* set in the resolved environment, one key has a config entry and no error
\* and the other has an error and no config entry.
C18_Witness ==
    /\ Done
    /\ Len(schema) = 2
    /\ OtherKey \in DOMAIN env
    /\ \E k \in 1..2 : schema[k].key \in DOMAIN envConfig /\ NoErrorAbout(schema[k].key)
    /\ \E k \in 1..2 : NoEntry(schema[k].key) /\ Cardinality(ErrorsAbout(schema[k].key)) = 1

\* position k holds an optional key (required: false) without a default and
\* without a value in the resolved environment
SilentlyAbsentAt(k) ==
    /\ ~IsRequiredEntry(schema[k].value)
    /\ ~HasDefault(schema[k].value)
    /\ Resolved(schema[k].key) = Undefined

\* C19: an optional key with no default and no provided value is silently
\* absent.  Once handled it has no config entry and no error, and the step
\* that handles it leaves the error list and the config, hence the outcome of
\* every other key, exactly as they were.
C19_OptionalAbsentIsSilent ==
    /\ [](\A k \in Processed :
            SilentlyAbsentAt(k) => NoEntry(schema[k].key) /\ NoErrorAbout(schema[k].key))
    /\ [][ ( /\ pc = "loop"
             /\ i <= Len(schema)
             /\ SilentlyAbsentAt(i) )
           => /\ i' = i + 1
              /\ errors' = errors
              /\ envConfig' = envConfig
              /\ outcome' = outcome ]_vars

\* C19 witness: a finished pass over two keys, the first one optional with
\* no default and no value, the second one with a config entry.
C19_Witness ==
    /\ Done
    /\ Len(schema) = 2
    /\ SilentlyAbsentAt(1)
    /\ DOMAIN envConfig = {schema[2].key}
    /\ errors = <<>>

\* position k holds an optional key with a default and with a value in the
\* resolved environment
OptionalDefaultProvidedAt(k) ==
    /\ ~IsRequiredEntry(schema[k].value)
    /\ HasDefault(schema[k].value)
    /\ Resolved(schema[k].key) # Undefined

\* C20: for an optional key with a default, a value of the environment takes
\* the place of the default.  A valid value is stored in its typed form, not
\* the default; an invalid value gives the one type error of the key and no
\* config entry, and so does a value of a key without a supported type.
C20_PresentValueReplacesDefault ==
    \A k \in Processed :
        OptionalDefaultProvidedAt(k)
            => LET key == schema[k].key
                   type == DeclaredType(schema[k].value)
                   value == Resolved(key)
               IN  IF ValidFor(type, value)
                   THEN /\ HasEntry(key, Coerced(type, value))
                        /\ NoErrorAbout(key)
                   ELSE /\ NoEntry(key)
                        /\ OnlyError(key, CASE type = Fn("Number") -> ShouldBeNumber(key)
                                            [] type = Fn("Boolean") -> ShouldBeBoolean(key)
                                            [] OTHER -> UnsupportedType(key))

\* C20 witness, the invalid case: an optional Number key with the default
\* 8080 and the value 'yes' ends with its type error and no entry.
C20_Witness ==
    /\ Done
    /\ \E k \in 1..Len(schema) :
         /\ OptionalDefaultProvidedAt(k)
         /\ schema[k].value.o["default"] = Num8080
         /\ Resolved(schema[k].key) = Str(<<"y", "e", "s">>)
         /\ NoEntry(schema[k].key)
         /\ ShouldBeNumber(schema[k].key) \in {errors[j] : j \in 1..Len(errors)}

\* the valid case: an optional Number key with the default 8080 and the
\* value '3000' ends with the entry 3000
C20_ValidCaseReached ==
    /\ Done
    /\ \E k \in 1..Len(schema) :
         /\ OptionalDefaultProvidedAt(k)
         /\ schema[k].value.o["default"] = Num8080
         /\ Resolved(schema[k].key) = Str(<<"3", "0", "0", "0">>)
         /\ HasEntry(schema[k].key, Finite(FALSE, 3000, 0))

\* config objects a caller may pass: empty, naming schema keys, naming a key
\* outside the schema
OtherConfigObjects ==
    { ConfigObject(<<>>),
      ConfigObject([A |-> <<"9">>]),
      ConfigObject([A |-> <<>>, B |-> LitTrue]),
      ConfigObject([Z |-> <<"y", "e", "s">>]) }

\* the error list and the config after the first n keys of the schema, as
\* the loop computes them from the environment e
RECURSIVE ValidatedUpTo(_, _)
ValidatedUpTo(e, n) ==
    IF n = 0
    THEN [errors |-> <<>>, config |-> InitialConfig(e)]
    ELSE LET before == ValidatedUpTo(e, n - 1)
             key == schema[n].key
             validated == validateEnvVariable(key, EnvValue(e, key),
                                              NormalizeSchemaValue(schema[n].value),
                                              before.errors)
         IN  [errors |-> validated.errors,
              config |-> StoreValidated(before.config, key, validated.value)]

=============================================================================
